---- MODULE Spec2Model ----
(***************************************************************************)
(* Model of src/bindings/cpp_generator.py: the pass that turns the flat    *)
(* list of C declarations of nats.h into namespaces, classes, methods,     *)
(* free functions and callback descriptors.                                *)
(*                                                                         *)
(* Python strings are TLA+ strings; the string methods the generator uses  *)
(* (startswith, replace, count, strip, split, slicing) are operators that  *)
(* compute what the Python methods compute.  None and the empty string are *)
(* both falsy in the places the code tests them, so None is modelled as "" *)
(* where the code only tests truthiness.                                   *)
(***************************************************************************)
EXTENDS Integers, Sequences, FiniteSets, TLC

VARIABLES
  pc,                      \* position of the run
  input,                   \* the cursors handed to parse(), in order
  i,                       \* parse(): index of the next cursor to scan
  functions,               \* parse(): functions
  enums,                   \* parse(): enums
  typedefs,                \* parse(): typedefs
  function_typedefs,       \* parse(): function_typedefs
  namespaces,              \* parse(): namespaces
  function_names,          \* parse(): function_names
  function_typedef_names,  \* parse(): function_typedef_names
  classes,                 \* parse(): classes (references into namespaces)
  ns,                      \* parse(): index of the namespace being filled
  function,                \* Method.__init__: argument function
  this,                    \* Method.__init__: argument this
  method,                  \* the Method under construction / constructed
  cursor,                  \* the cursor Function() or FunctionTypedef() is given
  ftd                      \* the FunctionTypedef constructed

vars == <<pc, input, i, functions, enums, typedefs, function_typedefs,
          namespaces, function_names, function_typedef_names, classes, ns,
          function, this, method, cursor, ftd>>

-----------------------------------------------------------------------------
(* Bounds of the model.                                                    *)

MaxDecls == 4
MaxParams == 3
MaxChildren == 3

-----------------------------------------------------------------------------
(* Python string and list primitives.                                      *)

Min(a, b) == IF a <= b THEN a ELSE b

\* s[:n]
Prefix(s, n) == SubSeq(s, 1, Min(n, Len(s)))

\* s[n:]
Suffix(s, n) == IF n >= Len(s) THEN "" ELSE SubSeq(s, n + 1, Len(s))

\* s.startswith(p)
StartsWith(s, p) == Len(p) <= Len(s) /\ SubSeq(s, 1, Len(p)) = p

\* s.endswith(p)
EndsWith(s, p) == Len(p) <= Len(s) /\ SubSeq(s, Len(s) - Len(p) + 1, Len(s)) = p

\* s.replace(old, new), old non-empty: every non-overlapping occurrence,
\* left to right
RECURSIVE Replace(_, _, _)
Replace(s, old, new) ==
  IF Len(s) < Len(old) THEN s
  ELSE IF StartsWith(s, old)
       THEN new \o Replace(Suffix(s, Len(old)), old, new)
       ELSE SubSeq(s, 1, 1) \o Replace(Suffix(s, 1), old, new)

\* s.count(c), c non-empty
RECURSIVE Count(_, _)
Count(s, c) ==
  IF Len(s) < Len(c) THEN 0
  ELSE IF StartsWith(s, c)
       THEN 1 + Count(Suffix(s, Len(c)), c)
       ELSE Count(Suffix(s, 1), c)

RECURSIVE LStrip(_)
LStrip(s) == IF StartsWith(s, " ") THEN LStrip(Suffix(s, 1)) ELSE s

RECURSIVE RStrip(_)
RStrip(s) == IF EndsWith(s, " ") THEN RStrip(SubSeq(s, 1, Len(s) - 1)) ELSE s

\* s.strip()
Strip(s) == RStrip(LStrip(s))

\* s.find(c): 1-based index of the first occurrence of c in s, 0 if none
RECURSIVE Find(_, _)
Find(s, c) ==
  IF Len(s) < Len(c) THEN 0
  ELSE IF StartsWith(s, c) THEN 1
       ELSE LET r == Find(Suffix(s, 1), c) IN IF r = 0 THEN 0 ELSE r + 1

\* s.split(sep, 2): at most three tokens
Split2(s, sep) ==
  LET a == Find(s, sep) IN
  IF a = 0 THEN <<s>>
  ELSE LET rest == Suffix(s, a + Len(sep) - 1)
           b == Find(rest, sep) IN
       IF b = 0 THEN <<SubSeq(s, 1, a - 1), rest>>
       ELSE <<SubSeq(s, 1, a - 1), SubSeq(rest, 1, b - 1),
              Suffix(rest, b + Len(sep) - 1)>>

\* x in list
In(x, list) == \E k \in DOMAIN list : list[k] = x

\* '%d' % n
Dec(n) == ToString(n)

-----------------------------------------------------------------------------
(* Program constants.                                                      *)

CONSTRUCTER_SUFFIX == "_Create"
DESTRUCTER_SUFFIX == "_Destroy"

-----------------------------------------------------------------------------
(* get_type and FunctionParameter.                                         *)

\* A clang cursor of a parameter or of a child of a typedef is
\*   [kind, spelling, type_kind, type_spelling, element_spelling, element_count]

get_type(spelling) == IF spelling = "_Bool" THEN "bool" ELSE spelling

FunctionParameter(c) ==
  IF c.type_kind = "CONSTANTARRAY"
  THEN [type |-> get_type(c.element_spelling),
        element_count |-> c.element_count,
        name |-> c.spelling]
  ELSE [type |-> get_type(c.type_spelling),
        element_count |-> 0,
        name |-> c.spelling]

plain_type(p) == Strip(Replace(p.type, "*", ""))

argument(p) == p.name

parameter(p) ==
  LET array == IF p.element_count # 0
               THEN "[" \o Dec(p.element_count) \o "]"
               ELSE ""
  IN p.type \o " " \o p.name \o array

\* [FunctionParameter(p) for p in cursors]
RECURSIVE FunctionParameters(_)
FunctionParameters(cs) ==
  IF cs = <<>> THEN <<>>
  ELSE <<FunctionParameter(Head(cs))>> \o FunctionParameters(Tail(cs))

-----------------------------------------------------------------------------
(* Function.                                                               *)

\* A top-level clang cursor is
\*   [kind, spelling, result_type, arguments, children]
\* (brief_comment and raw_comment are copied through and play no part).

\* Function.__init__ raises IndexError at token[1] when the name holds no '_'
FunctionRaises(c) == Len(Split2(c.spelling, "_")) < 2

Function(c) ==
  LET token == Split2(c.spelling, "_")
      result_type == get_type(c.result_type)
      status == result_type = "natsStatus"
  IN [original_function |-> c.spelling,
      result_type |-> IF status THEN "void" ELSE result_type,
      namespace |-> Prefix(token[1], 4),
      type |-> Suffix(token[1], 4),
      name |-> token[2],
      is_const |-> FALSE,
      with_exception |-> status,
      parameters |-> FunctionParameters(c.arguments)]

is_constructor(f) == EndsWith(f.original_function, CONSTRUCTER_SUFFIX)

is_destructor(f) == EndsWith(f.original_function, DESTRUCTER_SUFFIX)

\* GlobalFunction.__init__
RECURSIVE Arguments(_)
Arguments(ps) ==
  IF ps = <<>> THEN <<>> ELSE <<argument(Head(ps))>> \o Arguments(Tail(ps))

RECURSIVE Parameters(_)
Parameters(ps) ==
  IF ps = <<>> THEN <<>> ELSE <<parameter(Head(ps))>> \o Parameters(Tail(ps))

GlobalFunction(f) ==
  [function |-> f,
   arguments_ |-> Arguments(f.parameters),
   parameters_ |-> Parameters(f.parameters)]

-----------------------------------------------------------------------------
(* Method.                                                                 *)

\* The state of Method.__init__ before its loop.  is_const is an attribute
\* the loop may create: "unset" until then.  temporary_object is False until
\* the loop assigns it a string.  next_parameter_type None is "".
MethodBegin(f) ==
  [function |-> f,
   arguments_ |-> <<>>,
   parameters_ |-> <<>>,
   forward_arguments_ |-> <<>>,
   forward_parameters_ |-> <<>>,
   is_constructor |-> is_constructor(f),
   is_destructor |-> is_destructor(f),
   is_const |-> "unset",
   temporary_object |-> [assigned |-> FALSE, name |-> ""],
   type_number |-> 0,
   template_parameter_ |-> <<>>,
   next_parameter_type |-> ""]

\* IsReceiver without the removal of 'const '
IsReceiver_NoConstStrip(p, t) == StartsWith(p.type, t.original_type)

\* p.type.replace('const ', '').startswith(this.original_type)
IsReceiver(p, t) == StartsWith(Replace(p.type, "const ", ""), t.original_type)

\* p.type.count('*') == 2
TwoStars(p) == Count(p.type, "*") = 2

\* p.type.count('*') == 2 and p.type.startswith(this.namespace)
IsTemporary(p, t) == TwoStars(p) /\ StartsWith(p.type, t.namespace)

\* TypeName that ignores the counter
TypeName_Fixed(n) == "T1"

\* 'T%d' % (type_number)
TypeName(n) == "T" \o Dec(n)

\* CallbackArgument with the adapter not bound to the template type
CallbackArgument_Unbound(m, p, n) ==
  "&" \o Suffix(p.type, 4) \o "Callback<callback" \o Dec(n) \o ">"

\* the text the callback branch appends to forward_arguments_
CallbackArgument(m, p, n) ==
  LET templateNamespace == Prefix(p.type, 4)
      template == IF templateNamespace # m.function.namespace
                  THEN templateNamespace \o "::" \o Suffix(p.type, 4)
                  ELSE Suffix(p.type, 4)
  IN "&" \o template \o "Callback<" \o TypeName(n) \o ", callback" \o Dec(n) \o ">"

\* the two entries the callback branch appends to template_parameter_
CallbackTemplate(m, p, n) ==
  LET templateNamespace == Prefix(p.type, 4)
      template == IF templateNamespace # m.function.namespace
                  THEN templateNamespace \o "::" \o Suffix(p.type, 4)
                  ELSE Suffix(p.type, 4)
  IN <<"typename " \o TypeName(n),
       template \o "<" \o TypeName(n) \o "> callback" \o Dec(n)>>

\* ForwardParameter that never substitutes the template type
ForwardParameter_Unchanged(m, p) == parameter(p)

\* the forwarded parameter of a plain parameter
ForwardParameter(m, p) ==
  IF m.next_parameter_type # ""
  THEN Replace(parameter(p), "void", m.next_parameter_type)
  ELSE parameter(p)

\* one turn of the loop of Method.__init__ over parameter p
MethodStep(m, p, t, ftds) ==
  LET recv == IsReceiver(p, t)
      temp == ~recv /\ IsTemporary(p, t)
      arg == IF recv THEN (IF TwoStars(p) THEN "&self" ELSE "self")
             ELSE IF temp THEN "&ret.self" ELSE argument(p)
      m1 == [m EXCEPT
               !.is_constructor = IF recv /\ TwoStars(p) THEN TRUE ELSE @,
               !.is_const = IF recv /\ ~TwoStars(p)
                            THEN (IF StartsWith(p.type, "const ")
                                  THEN "True" ELSE "False")
                            ELSE @,
               !.temporary_object =
                   IF temp
                   THEN [assigned |-> TRUE,
                         name |-> Replace(plain_type(p), t.namespace, "")]
                   ELSE @,
               !.arguments_ = Append(@, arg)]
  IN IF recv \/ temp THEN m1
     ELSE IF In(p.type, ftds)
     THEN LET n == m.type_number + 1 IN
          [m1 EXCEPT
             !.parameters_ = Append(@, parameter(p)),
             !.type_number = n,
             !.next_parameter_type = TypeName(n),
             !.forward_arguments_ = Append(@, CallbackArgument(m, p, n)),
             !.template_parameter_ = @ \o CallbackTemplate(m, p, n)]
     ELSE [m1 EXCEPT
             !.parameters_ = Append(@, parameter(p)),
             !.forward_parameters_ = Append(@, ForwardParameter(m, p)),
             !.next_parameter_type = "",
             !.forward_arguments_ = Append(@, arg)]

RECURSIVE MethodLoop(_, _, _, _)
MethodLoop(m, ps, t, ftds) ==
  IF ps = <<>> THEN m
  ELSE MethodLoop(MethodStep(m, Head(ps), t, ftds), Tail(ps), t, ftds)

\* Method.__init__(function, this, function_typedefs)
Method(f, t, ftds) == MethodLoop(MethodBegin(f), f.parameters, t, ftds)

\* Method.result_type that ignores temporary_object
MethodResultType_Declared(m) == m.function.result_type

\* Method.result_type: a temporary_object of False or '' is falsy
MethodResultType(m) ==
  IF m.temporary_object.assigned /\ m.temporary_object.name # ""
  THEN m.temporary_object.name
  ELSE m.function.result_type

\* FunctionProxy.with_exception
MethodWithException(m) == m.function.with_exception

-----------------------------------------------------------------------------
(* Class.                                                                  *)

\* Class.__init__(namespace, typedef)
Class(n, td) ==
  [original_type |-> td.name,
   namespace |-> n.name,
   name |-> Suffix(td.name, 4),
   methods |-> <<>>]

\* Class.add_method
add_method(c, f, ftds) == [c EXCEPT !.methods = Append(@, Method(f, c, ftds))]

-----------------------------------------------------------------------------
(* FunctionTypedef.                                                        *)

\* the children of the typedef that are not TYPE_REF, as parameters
RECURSIVE OriginalParameters(_)
OriginalParameters(cs) ==
  IF cs = <<>> THEN <<>>
  ELSE IF Head(cs).kind = "TYPE_REF" THEN OriginalParameters(Tail(cs))
       ELSE <<FunctionParameter(Head(cs))>> \o OriginalParameters(Tail(cs))

\* the result type: the type of the last TYPE_REF child, 'void' without one
RECURSIVE TypedefResultType(_, _)
TypedefResultType(cs, r) ==
  IF cs = <<>> THEN r
  ELSE TypedefResultType(Tail(cs),
         IF Head(cs).kind = "TYPE_REF" THEN Head(cs).type_spelling ELSE r)

\* FunctionTypedef.__init__ raises IndexError at original_parameters[-1]
\* when no child is a parameter
FunctionTypedefRaises(c) == OriginalParameters(c.children) = <<>>

\* NeedsWrap without the exclusion of the status-code type
NeedsWrap_AnyOwn(p, namespace) == StartsWith(p.type, namespace)

\* whether the loop over original_parameters[:-1] wraps p
NeedsWrap(p, namespace) == StartsWith(p.type, namespace) /\ p.type # "natsStatus"

AdaptedArgument(p, namespace) ==
  IF NeedsWrap(p, namespace)
  THEN IF plain_type(p) = "natsMsg"
       THEN Suffix(plain_type(p), 4) \o "(" \o p.name \o ")"
       ELSE p.name \o "_"
  ELSE argument(p)

AdaptedParameter(p, namespace) ==
  IF NeedsWrap(p, namespace)
  THEN IF plain_type(p) = "natsMsg"
       THEN Suffix(plain_type(p), 4) \o " &&"
       ELSE Suffix(plain_type(p), 4) \o " &"
  ELSE parameter(p)

\* the wrap rules the loop appends for p
Wrapper(p, namespace) ==
  IF NeedsWrap(p, namespace) /\ plain_type(p) # "natsMsg"
  THEN <<Suffix(plain_type(p), 4) \o "::WithoutDestuction "
           \o p.name \o "_" \o "(" \o p.name \o ")">>
  ELSE <<>>

RECURSIVE AdaptLoop(_, _, _)
AdaptLoop(t, ps, namespace) ==
  IF ps = <<>> THEN t
  ELSE AdaptLoop(
         [t EXCEPT !.wrapper = @ \o Wrapper(Head(ps), namespace),
                   !.arguments_ = Append(@, AdaptedArgument(Head(ps), namespace)),
                   !.parameters_ = Append(@, AdaptedParameter(Head(ps), namespace))],
         Tail(ps), namespace)

\* FunctionTypedef.__init__(cursor), for a cursor that does not raise
FunctionTypedef(c) ==
  LET ps == OriginalParameters(c.children)
      t0 == [original_name |-> c.spelling,
             namespace |-> Prefix(c.spelling, 4),
             name |-> Suffix(c.spelling, 4),
             result_type |-> TypedefResultType(c.children, "void"),
             original_parameters |-> ps,
             wrapper |-> <<>>,
             arguments_ |-> <<>>,
             parameters_ |-> <<>>,
             has_closure |-> ps[Len(ps)].name = "closure"]
  IN IF ~t0.has_closure THEN t0
     ELSE AdaptLoop(t0, SubSeq(ps, 1, Len(ps) - 1), t0.namespace)

\* Enum.__init__
Enum(c) == [name |-> c.spelling]

\* Typedef.__init__
Typedef(c) == [name |-> c.spelling, original_name |-> c.spelling]

-----------------------------------------------------------------------------
(* Inputs: what the clang front end hands over.                            *)

\* a PARM_DECL cursor
Parm(type, name) ==
  [kind |-> "PARM_DECL", spelling |-> name, type_kind |-> "OTHER",
   type_spelling |-> type, element_spelling |-> "", element_count |-> 0]

\* a PARM_DECL cursor of a fixed-size array
ArrayParm(element, name, count) ==
  [kind |-> "PARM_DECL", spelling |-> name, type_kind |-> "CONSTANTARRAY",
   type_spelling |-> element \o "[" \o Dec(count) \o "]",
   element_spelling |-> element, element_count |-> count]

\* a TYPE_REF or ENUM_DECL child of a typedef
Child(kind, type) ==
  [kind |-> kind, spelling |-> type, type_kind |-> "OTHER",
   type_spelling |-> type, element_spelling |-> "", element_count |-> 0]

\* a FUNCTION_DECL cursor
FunctionDecl(name, result, args) ==
  [kind |-> "FUNCTION_DECL", spelling |-> name, result_type |-> result,
   arguments |-> args, children |-> args]

\* a TYPEDEF_DECL cursor
TypedefDecl(name, children) ==
  [kind |-> "TYPEDEF_DECL", spelling |-> name, result_type |-> "",
   arguments |-> <<>>, children |-> children]

\* every sequence over S of length lo..hi
SeqsOf(S, lo, hi) == UNION {[1..n -> S] : n \in lo..hi}

\* the value of a variable a specification does not use
Unused == "unused"

-----------------------------------------------------------------------------
(* SpecMethod: Method.__init__ on bounded inputs.                          *)

\* the parameters a function of class t is drawn from: the three receiver
\* shapes of t, an object of another type by address, a callback, its
\* closure, a plain value, and a two-level pointer to a type named as the
\* namespace
MethodParms(t) ==
  {Parm(t.original_type \o " *", "obj"),
   Parm(t.original_type \o " **", "newObj"),
   Parm("const " \o t.original_type \o " *", "cobj"),
   Parm("natsBar **", "bar"),
   Parm("natsMsgHandler", "cb"),
   Parm("void *", "closure"),
   Parm("int", "x"),
   Parm("nats **", "out")}

\* the classes a method is built for
MethodClasses ==
  {Class([name |-> "nats"], Typedef(TypedefDecl("natsFoo", <<>>))),
   Class([name |-> "nats"], Typedef(TypedefDecl("natsMsg", <<>>))),
   Class([name |-> "stan"], Typedef(TypedefDecl("stanBar", <<>>)))}

\* (name suffix, declared result type) of the functions a method is built from
MethodFunctions ==
  {<<"_Create", "natsStatus">>, <<"_Get", "int">>}

InitMethod ==
  /\ pc = "method"
  /\ this \in MethodClasses
  /\ function_typedef_names \in {<<>>, <<"natsMsgHandler">>}
  /\ \E sr \in MethodFunctions, args \in SeqsOf(MethodParms(this), 0, MaxParams) :
       cursor = FunctionDecl(this.original_type \o sr[1], sr[2], args)
  /\ function = Function(cursor)
  /\ method = Unused
  /\ input = Unused /\ i = 0 /\ functions = Unused /\ enums = Unused
  /\ typedefs = Unused /\ function_typedefs = Unused /\ namespaces = Unused
  /\ function_names = Unused /\ classes = Unused /\ ns = 0
  /\ ftd = Unused

\* Class.add_method calls Method(function, self, function_typedefs)
MethodInit ==
  /\ pc = "method"
  /\ method' = Method(function, this, function_typedef_names)
  /\ pc' = "method_done"
  /\ UNCHANGED <<input, i, functions, enums, typedefs, function_typedefs,
                 namespaces, function_names, function_typedef_names, classes,
                 ns, function, this, cursor, ftd>>

NextMethod == MethodInit

SpecMethod == InitMethod /\ [][NextMethod]_vars

-----------------------------------------------------------------------------
(* SpecFtd: FunctionTypedef.__init__ on bounded inputs.                    *)

FtdChildren ==
  {Child("TYPE_REF", "natsStatus"),
   Parm("natsConnection *", "nc"),
   Parm("natsMsg *", "msg"),
   Parm("const natsMsg *", "cmsg"),
   Parm("natsStatus", "err"),
   Parm("int", "x"),
   Parm("void *", "closure")}

\* parse() builds a FunctionTypedef from a typedef that has children and is
\* not a single ENUM_DECL or TYPE_REF
IsFunctionTypedefCursor(c) ==
  /\ Len(c.children) # 0
  /\ ~(Len(c.children) = 1 /\ c.children[1].kind \in {"ENUM_DECL", "TYPE_REF"})

InitFtd ==
  /\ pc = "ftd"
  /\ \E name \in {"natsMsgHandler", "stanMsgHandler"},
        children \in SeqsOf(FtdChildren, 1, MaxChildren) :
       cursor = TypedefDecl(name, children)
  /\ IsFunctionTypedefCursor(cursor)
  /\ ftd = Unused
  /\ input = Unused /\ i = 0 /\ functions = Unused /\ enums = Unused
  /\ typedefs = Unused /\ function_typedefs = Unused /\ namespaces = Unused
  /\ function_names = Unused /\ function_typedef_names = Unused
  /\ classes = Unused /\ ns = 0
  /\ function = Unused /\ this = Unused /\ method = Unused

\* parse() calls FunctionTypedef(cursor): it returns the descriptor
FtdInit ==
  /\ pc = "ftd"
  /\ ~FunctionTypedefRaises(cursor)
  /\ ftd' = FunctionTypedef(cursor)
  /\ pc' = "ftd_done"
  /\ UNCHANGED <<input, i, functions, enums, typedefs, function_typedefs,
                 namespaces, function_names, function_typedef_names, classes,
                 ns, function, this, method, cursor>>

\* parse() calls FunctionTypedef(cursor): it raises IndexError
FtdRaise ==
  /\ pc = "ftd"
  /\ FunctionTypedefRaises(cursor)
  /\ pc' = "raised"
  /\ UNCHANGED <<input, i, functions, enums, typedefs, function_typedefs,
                 namespaces, function_names, function_typedef_names, classes,
                 ns, function, this, method, cursor, ftd>>

NextFtd == FtdInit \/ FtdRaise

SpecFtd == InitFtd /\ [][NextFtd]_vars

-----------------------------------------------------------------------------
(* Namespace.                                                              *)

\* Namespace.__init__(name, include_guard); include_guard None is ""
Namespace(name, include_guard) ==
  [name |-> name,
   classes |-> <<>>,
   functions |-> <<>>,
   function_typedefs |-> <<>>,
   include_guard |-> include_guard]

\* Namespace.add_class
add_class(n, td) == [n EXCEPT !.classes = Append(@, Class(n, td))]

\* Namespace.add_function
add_function(n, f) == [n EXCEPT !.functions = Append(@, GlobalFunction(f))]

\* Namespace.add_function_typedef
add_function_typedef(n, t) == [n EXCEPT !.function_typedefs = Append(@, t)]

\* add_typedef that keeps the typedef as a class
add_typedef_AsClass(n, td) == add_class(n, td)

\* Namespace.add_typedef: pass
add_typedef(n, td) == n

-----------------------------------------------------------------------------
(* parse().                                                                *)

\* cursor.spelling[:4] in ['nats', 'stan']
Recognized(name) == Prefix(name, 4) \in {"nats", "stan"}

\* what the scan loop does with cursor c: the list it appends to, "raise"
\* when the constructor it calls raises, "skip" when it appends to none
ScanKind(c) ==
  IF ~Recognized(c.spelling) THEN "skip"
  ELSE IF c.kind = "FUNCTION_DECL"
       THEN IF FunctionRaises(c) THEN "raise" ELSE "functions"
  ELSE IF c.kind = "TYPEDEF_DECL"
       THEN IF Len(c.children) = 0 THEN "typedefs"
            ELSE IF Len(c.children) = 1 /\ c.children[1].kind = "ENUM_DECL"
                 THEN "enums"
            ELSE IF Len(c.children) = 1 /\ c.children[1].kind = "TYPE_REF"
                 THEN "typedefs"
            ELSE IF FunctionTypedefRaises(c) THEN "raise"
                 ELSE "function_typedefs"
  ELSE "skip"

\* [f.original_function for f in functions]
RECURSIVE OriginalFunctions(_)
OriginalFunctions(fs) ==
  IF fs = <<>> THEN <<>>
  ELSE <<Head(fs).original_function>> \o OriginalFunctions(Tail(fs))

\* [ftd.original_name for ftd in filter(lambda ftd: ftd.has_closure, ...)]
RECURSIVE ClosureNames(_)
ClosureNames(ts) ==
  IF ts = <<>> THEN <<>>
  ELSE IF Head(ts).has_closure
       THEN <<Head(ts).original_name>> \o ClosureNames(Tail(ts))
       ELSE ClosureNames(Tail(ts))

\* the loop over the function typedefs of namespace n
RECURSIVE FunctionTypedefLoop(_, _)
FunctionTypedefLoop(n, ts) ==
  IF ts = <<>> THEN n
  ELSE IF StartsWith(Head(ts).original_name, n.name) /\ Head(ts).has_closure
       THEN FunctionTypedefLoop(add_function_typedef(n, Head(ts)), Tail(ts))
       ELSE FunctionTypedefLoop(n, Tail(ts))

\* HasDestroy satisfied by any function of that prefix ending in '_Destroy'
HasDestroy_AnySuffix(td, names) ==
  \E k \in DOMAIN names :
    StartsWith(names[k], td.original_name) /\ EndsWith(names[k], "_Destroy")

\* td.original_name + '_Destroy' in function_names
HasDestroy(td, names) == In(td.original_name \o "_Destroy", names)

\* the loop over the typedefs of namespace nss[k]; a member of classes is a
\* reference to a Class object held by a namespace: [ns, index]
RECURSIVE TypedefLoop(_, _, _, _, _)
TypedefLoop(nss, cls, k, tds, names) ==
  IF tds = <<>> THEN [namespaces |-> nss, classes |-> cls]
  ELSE IF ~StartsWith(Head(tds).name, nss[k].name)
       THEN TypedefLoop(nss, cls, k, Tail(tds), names)
  ELSE IF HasDestroy(Head(tds), names)
       THEN LET n == add_class(nss[k], Head(tds)) IN
            TypedefLoop([nss EXCEPT ![k] = n],
                        Append(cls, [ns |-> k, index |-> Len(n.classes)]),
                        k, Tail(tds), names)
  ELSE TypedefLoop([nss EXCEPT ![k] = add_typedef(nss[k], Head(tds))],
                   cls, k, Tail(tds), names)

\* the Class object a member of classes refers to
ClassOf(nss, ref) == nss[ref.ns].classes[ref.index]

\* FoundClass that takes the last matching class
FoundClass_Last(nss, cls, f) ==
  LET hits == {c \in DOMAIN cls :
                 StartsWith(f.original_function, nss[cls[c].ns].classes[cls[c].index].original_type)}
  IN IF hits = {} THEN 0 ELSE CHOOSE c \in hits : \A d \in hits : c >= d

\* found_class: the index in classes of the first class whose original_type
\* the function's name starts with, 0 for None
FoundClass(nss, cls, f) ==
  LET hits == {c \in DOMAIN cls :
                 StartsWith(f.original_function, ClassOf(nss, cls[c]).original_type)}
  IN IF hits = {} THEN 0 ELSE CHOOSE c \in hits : \A d \in hits : c <= d

\* the loop over the functions of namespace nss[k]
RECURSIVE FunctionLoop(_, _, _, _, _)
FunctionLoop(nss, cls, k, fs, ftds) ==
  IF fs = <<>> THEN nss
  ELSE IF ~StartsWith(Head(fs).original_function, nss[k].name)
       THEN FunctionLoop(nss, cls, k, Tail(fs), ftds)
  ELSE LET found == FoundClass(nss, cls, Head(fs)) IN
       IF found # 0
       THEN LET ref == cls[found] IN
            FunctionLoop(
              [nss EXCEPT ![ref.ns].classes[ref.index] =
                            add_method(@, Head(fs), ftds)],
              cls, k, Tail(fs), ftds)
       ELSE FunctionLoop([nss EXCEPT ![k] = add_function(@, Head(fs))],
                         cls, k, Tail(fs), ftds)

-----------------------------------------------------------------------------
(* Spec: parse() on bounded declaration lists.                             *)

\* the declarations of a header, in order
Header ==
  <<TypedefDecl("natsFoo", <<>>),
    TypedefDecl("natsFooBar", <<Child("TYPE_REF", "struct __natsFooBar")>>),
    FunctionDecl("natsFoo_Destroy", "void", <<Parm("natsFoo *", "foo")>>),
    FunctionDecl("natsFooBar_Destroy", "void", <<Parm("natsFooBar *", "fb")>>),
    FunctionDecl("natsFoo_Set", "natsStatus",
                 <<Parm("natsFoo *", "foo"), Parm("natsMsgHandler", "cb"),
                   Parm("void *", "closure")>>),
    TypedefDecl("natsMsgHandler",
                <<Parm("natsFoo *", "foo"), Parm("natsMsg *", "msg"),
                  Parm("void *", "closure")>>),
    TypedefDecl("natsFreeCb", <<Parm("void *", "p")>>),
    TypedefDecl("natsStatus", <<Child("ENUM_DECL", "natsStatus")>>),
    FunctionDecl("nats_Open", "natsStatus",
                 <<Parm("_Bool", "lock"), ArrayParm("char", "buf", 16)>>),
    TypedefDecl("stanBar", <<>>),
    FunctionDecl("stanBar_Destroy", "void", <<Parm("stanBar *", "bar")>>),
    TypedefDecl("natFoo", <<>>),
    FunctionDecl("natFoo_Destroy", "void", <<Parm("natFoo *", "foo")>>),
    FunctionDecl("natsOpen", "natsStatus", <<>>),
    TypedefDecl("natsBadCb", <<Child("TYPE_REF", "natsFoo"),
                               Child("TYPE_REF", "natsMsg")>>),
    [kind |-> "VAR_DECL", spelling |-> "nats_Version", result_type |-> "",
     arguments |-> <<>>, children |-> <<>>]>>

\* the members of S in increasing order
RECURSIVE Ascending(_)
Ascending(S) ==
  IF S = {} THEN <<>>
  ELSE LET m == CHOOSE x \in S : \A y \in S : x <= y
       IN <<m>> \o Ascending(S \ {m})

Reverse(q) == [k \in 1..Len(q) |-> q[Len(q) + 1 - k]]

\* the declarations of Header at the indices of S, in Header's order
Pick(S) == LET ix == Ascending(S) IN [k \in 1..Len(ix) |-> Header[ix[k]]]

Init ==
  /\ pc = "scan"
  /\ \E S \in SUBSET DOMAIN Header :
       /\ Cardinality(S) <= MaxDecls
       /\ input \in {Pick(S), Reverse(Pick(S))}
  /\ i = 1
  /\ functions = <<>> /\ enums = <<>> /\ typedefs = <<>>
  /\ function_typedefs = <<>>
  /\ namespaces = <<>> /\ function_names = <<>>
  /\ function_typedef_names = <<>> /\ classes = <<>> /\ ns = 0
  /\ function = Unused /\ this = Unused /\ method = Unused
  /\ cursor = Unused /\ ftd = Unused

\* one turn of the scan loop that appends to a list or skips the cursor
ParseScan ==
  /\ pc = "scan" /\ i <= Len(input)
  /\ LET c == input[i]
         kind == ScanKind(c) IN
       /\ kind # "raise"
       /\ functions' = IF kind = "functions"
                       THEN Append(functions, Function(c)) ELSE functions
       /\ enums' = IF kind = "enums" THEN Append(enums, Enum(c)) ELSE enums
       /\ typedefs' = IF kind = "typedefs"
                      THEN Append(typedefs, Typedef(c)) ELSE typedefs
       /\ function_typedefs' = IF kind = "function_typedefs"
                               THEN Append(function_typedefs, FunctionTypedef(c))
                               ELSE function_typedefs
  /\ i' = i + 1
  /\ UNCHANGED <<pc, input, namespaces, function_names, function_typedef_names,
                 classes, ns, function, this, method, cursor, ftd>>

\* one turn of the scan loop in which Function() or FunctionTypedef() raises
\* IndexError: parse() has no handler, the exception leaves it
ParseRaise ==
  /\ pc = "scan" /\ i <= Len(input)
  /\ ScanKind(input[i]) = "raise"
  /\ pc' = "raised"
  /\ UNCHANGED <<input, i, functions, enums, typedefs, function_typedefs,
                 namespaces, function_names, function_typedef_names, classes,
                 ns, function, this, method, cursor, ftd>>

\* the end of the scan loop: the namespaces and the name lists are built
ParseNamespaces ==
  /\ pc = "scan" /\ i > Len(input)
  /\ namespaces' = <<Namespace("nats", ""),
                     Namespace("stan", "defined(NATS_HAS_STREAMING)")>>
  /\ function_names' = OriginalFunctions(functions)
  /\ function_typedef_names' = ClosureNames(function_typedefs)
  /\ classes' = <<>>
  /\ ns' = 1
  /\ pc' = "function_typedefs"
  /\ UNCHANGED <<input, i, functions, enums, typedefs, function_typedefs,
                 function, this, method, cursor, ftd>>

\* the first inner loop of namespace ns
ParseFunctionTypedefs ==
  /\ pc = "function_typedefs"
  /\ namespaces' = [namespaces EXCEPT
                      ![ns] = FunctionTypedefLoop(@, function_typedefs)]
  /\ pc' = "typedefs"
  /\ UNCHANGED <<input, i, functions, enums, typedefs, function_typedefs,
                 function_names, function_typedef_names, classes, ns,
                 function, this, method, cursor, ftd>>

\* the second inner loop of namespace ns
ParseTypedefs ==
  /\ pc = "typedefs"
  /\ LET r == TypedefLoop(namespaces, classes, ns, typedefs, function_names) IN
       /\ namespaces' = r.namespaces
       /\ classes' = r.classes
  /\ pc' = "functions"
  /\ UNCHANGED <<input, i, functions, enums, typedefs, function_typedefs,
                 function_names, function_typedef_names, ns,
                 function, this, method, cursor, ftd>>

\* the third inner loop of namespace ns; after the last namespace parse()
\* returns namespaces
ParseFunctions ==
  /\ pc = "functions"
  /\ namespaces' = FunctionLoop(namespaces, classes, ns, functions,
                                function_typedef_names)
  /\ IF ns < Len(namespaces)
     THEN ns' = ns + 1 /\ pc' = "function_typedefs"
     ELSE ns' = ns /\ pc' = "done"
  /\ UNCHANGED <<input, i, functions, enums, typedefs, function_typedefs,
                 function_names, function_typedef_names, classes,
                 function, this, method, cursor, ftd>>

Next ==
  \/ ParseScan
  \/ ParseRaise
  \/ ParseNamespaces
  \/ ParseFunctionTypedefs
  \/ ParseTypedefs
  \/ ParseFunctions

Spec == Init /\ [][Next]_vars

-----------------------------------------------------------------------------
(* Properties of Method.__init__, checked under SpecMethod.                *)

\* the role the classifier gives parameter p of a function of class t, when
\* names are the names of the closure-convention function typedefs
Role(p, t, names) ==
  IF StartsWith(Replace(p.type, "const ", ""), t.original_type)
  THEN IF Count(p.type, "*") = 2 THEN "constructor receiver"
       ELSE "instance receiver"
  ELSE IF Count(p.type, "*") = 2 /\ StartsWith(p.type, t.namespace)
       THEN "temporary output"
  ELSE IF \E k \in DOMAIN names : names[k] = p.type THEN "callback"
  ELSE "plain"

MethodBuilt == pc = "method_done"

RoleAt(j) == Role(function.parameters[j], this, function_typedef_names)

\* the positions of the parameters with a role of R
Positions(R) == {j \in DOMAIN function.parameters : RoleAt(j) \in R}

\* how many callbacks stand at positions 1..j
CallbackRank(j) == Cardinality({r \in 1..j : RoleAt(r) = "callback"})

\* the texts of the parameters at the positions of S, in declaration order
TextsAt(S) ==
  LET ix == Ascending(S)
  IN [k \in 1..Len(ix) |-> parameter(function.parameters[ix[k]])]

\* the last temporary-output parameter's type name without the namespace
\* prefix, "" when there is none
LastTemporaryName ==
  LET S == Positions({"temporary output"}) IN
  IF S = {} THEN ""
  ELSE LET j == CHOOSE x \in S : \A y \in S : y <= x
       IN Replace(Strip(Replace(function.parameters[j].type, "*", "")),
                  this.namespace, "")

DeclaredStatus == get_type(cursor.result_type) = "natsStatus"

\* C2 as stated: a method of a function that returns natsStatus raises on
\* failure and has the public result type void, whatever its parameters
C2_AlwaysVoid ==
  (MethodBuilt /\ DeclaredStatus) =>
    (MethodWithException(method) /\ MethodResultType(method) = "void")

\* C2: a method of a function that returns natsStatus raises on failure; its
\* public result type is void unless the last temporary-output parameter
\* leaves a non-empty type name, and then it is that name
C2_StatusMethod ==
  (MethodBuilt /\ DeclaredStatus) =>
    /\ MethodWithException(method)
    /\ MethodResultType(method) =
         (IF LastTemporaryName # "" THEN LastTemporaryName ELSE "void")

C2_Witness ==
  /\ MethodBuilt /\ DeclaredStatus
  /\ Positions({"temporary output"}) # {}
  /\ MethodResultType(method) = "Bar"
  /\ MethodWithException(method)

\* the case of C4: (instance receiver, callback typedef, void* closure)
C4_Case ==
  /\ MethodBuilt
  /\ Len(function.parameters) = 3
  /\ RoleAt(1) = "instance receiver"
  /\ \E k \in DOMAIN function_typedef_names :
       function_typedef_names[k] = function.parameters[2].type
  /\ function.parameters[3].type = "void *"

\* the entries of template_parameter_ that declare a type parameter
TemplateTypes(m) ==
  SelectSeq(m.template_parameter_, LAMBDA e : StartsWith(e, "typename "))

\* the forwarded call passes an adapter bound to T1, then the closure name
C4_Forwarded(m) ==
  /\ Len(m.forward_arguments_) = 2
  /\ StartsWith(m.forward_arguments_[1], "&")
  /\ EndsWith(m.forward_arguments_[1], "Callback<T1, callback1>")
  /\ m.forward_arguments_[2] = function.parameters[3].name

\* C4 as stated: one template type parameter T1, an empty public parameter
\* list, and a forwarded call of the adapter bound to T1 and the closure name
C4_EmptyPublic ==
  C4_Case =>
    /\ TemplateTypes(method) = <<"typename T1">>
    /\ method.parameters_ = <<>>
    /\ C4_Forwarded(method)

\* C4: when the callback's type name does not start with the class's type
\* name, the method has one template type parameter T1, its public
\* parameter list holds the callback and the closure parameter and not the
\* receiver, its forwarded parameter list holds the closure parameter alone
\* with void replaced by T1, and the forwarded call passes the adapter bound
\* to T1 and then the closure name
C4_CallbackMethod ==
  (C4_Case /\ RoleAt(2) = "callback") =>
    /\ TemplateTypes(method) = <<"typename T1">>
    /\ method.parameters_ = <<parameter(function.parameters[2]),
                              parameter(function.parameters[3])>>
    /\ method.forward_parameters_ =
         <<"T1 * " \o function.parameters[3].name>>
    /\ C4_Forwarded(method)

C4_Witness ==
  /\ C4_Case /\ RoleAt(2) = "callback"
  /\ method.forward_parameters_ = <<"T1 * closure">>
  /\ Len(method.parameters_) = 2

\* C5: the template type parameters are T1..Tn, n the number of parameters
\* the callback branch classifies, and the k-th of them gets Tk
C5_TemplateNumbering ==
  MethodBuilt =>
    LET cb == Ascending(Positions({"callback"}))
        tp == method.template_parameter_
    IN /\ Len(TemplateTypes(method)) = Len(cb)
       /\ Len(tp) = 2 * Len(cb)
       /\ \A k \in 1..Len(cb) :
            /\ tp[2 * k - 1] = "typename T" \o ToString(k)
            /\ EndsWith(tp[2 * k],
                        Suffix(function.parameters[cb[k]].type, 4)
                          \o "<T" \o ToString(k) \o "> callback" \o ToString(k))

C5_Witness ==
  /\ MethodBuilt
  /\ Cardinality(Positions({"callback"})) = 2
  /\ Positions({"instance receiver"}) # {}
  /\ TemplateTypes(method) = <<"typename T1", "typename T2">>

\* C7: the public parameter list is the plain and callback parameters, in
\* declaration order; receivers and temporary outputs are not in it
C7_PublicParameters ==
  MethodBuilt => method.parameters_ = TextsAt(Positions({"plain", "callback"}))

C7_Witness ==
  /\ MethodBuilt
  /\ Positions({"constructor receiver"}) # {}
  /\ Positions({"temporary output"}) # {}
  /\ Positions({"plain", "callback"}) # {}
  /\ Len(method.parameters_) = 1
  /\ method.is_constructor

\* the forwarded text of the plain parameter at j when the template type of
\* the callback at q, if q is one, replaces its closure type
ForwardedAfter(j, q) ==
  IF q # 0 /\ RoleAt(q) = "callback"
  THEN Replace(parameter(function.parameters[j]), "void",
               "T" \o ToString(CallbackRank(q)))
  ELSE parameter(function.parameters[j])

\* the position right before j in declaration order
DeclaredBefore(j) == j - 1

\* the nearest position before j that holds a plain or callback parameter
VisibleBefore(j) ==
  LET S == {q \in Positions({"plain", "callback"}) : q < j}
  IN IF S = {} THEN 0 ELSE CHOOSE q \in S : \A r \in S : r <= q

\* the forwarded parameter list when a plain parameter takes the type of the
\* callback right before it in declaration order
ForwardedDeclared ==
  LET ix == Ascending(Positions({"plain"}))
  IN [k \in 1..Len(ix) |-> ForwardedAfter(ix[k], DeclaredBefore(ix[k]))]

\* the forwarded parameter list when a plain parameter takes the type of the
\* callback that is the nearest plain or callback parameter before it
ForwardedVisible ==
  LET ix == Ascending(Positions({"plain"}))
  IN [k \in 1..Len(ix) |-> ForwardedAfter(ix[k], VisibleBefore(ix[k]))]

\* C9 as stated: a plain parameter is forwarded with Tk in place of its
\* closure type iff it immediately follows the k-th callback in declaration
\* order
C9_ImmediatelyFollows ==
  MethodBuilt => method.forward_parameters_ = ForwardedDeclared

\* C9: a plain parameter is forwarded with Tk in place of its closure type
\* iff the nearest plain or callback parameter before it is the k-th
\* callback (receivers and temporary outputs in between are skipped)
C9_FollowsVisible ==
  MethodBuilt => method.forward_parameters_ = ForwardedVisible

C9_Witness ==
  /\ MethodBuilt
  /\ Len(function.parameters) = 3
  /\ RoleAt(1) = "callback"
  /\ RoleAt(2) = "instance receiver"
  /\ RoleAt(3) = "plain"
  /\ method.forward_parameters_ = <<"T1 * closure">>

-----------------------------------------------------------------------------
(* Properties of FunctionTypedef.__init__, checked under SpecFtd.          *)

FtdBuilt == pc = "ftd_done"

\* the parameters of the typedef: its children that are not type references
FtdParameters ==
  LET cs == SelectSeq(cursor.children, LAMBDA c : c.kind # "TYPE_REF")
  IN [k \in 1..Len(cs) |-> FunctionParameter(cs[k])]

\* the type of p with every '*' removed, trimmed
PlainOf(p) == Strip(Replace(p.type, "*", ""))

\* p is of the typedef's own namespace and not the status-code type
OwnType(p) ==
  StartsWith(p.type, Prefix(cursor.spelling, 4)) /\ p.type # "natsStatus"

\* p is passed as a reference to a non-owning wrapper
Wrapped(p) == OwnType(p) /\ PlainOf(p) # "natsMsg"

\* the wrap rule recorded for p
RuleOf(p) ==
  Suffix(PlainOf(p), 4) \o "::WithoutDestuction " \o p.name \o "_("
    \o p.name \o ")"

\* C6: with a last parameter named 'closure' the adapted list has one entry
\* per non-trailing parameter, in order: natsMsg of the typedef's namespace
\* is moved with no wrap rule, another type of that namespace other than
\* natsStatus is a reference to a wrapper with one wrap rule, everything else
\* is unchanged with no wrap rule; without 'closure' nothing is adapted
C6_Adapted ==
  FtdBuilt =>
    LET ps == FtdParameters
        n == Len(ps)
        wrapped == Ascending({j \in 1..(n - 1) : Wrapped(ps[j])})
    IN IF ps[n].name # "closure"
       THEN /\ ftd.parameters_ = <<>>
            /\ ftd.arguments_ = <<>>
            /\ ftd.wrapper = <<>>
       ELSE /\ Len(ftd.parameters_) = n - 1
            /\ Len(ftd.arguments_) = n - 1
            /\ \A j \in 1..(n - 1) :
                 IF OwnType(ps[j]) /\ PlainOf(ps[j]) = "natsMsg"
                 THEN /\ ftd.parameters_[j] = "Msg &&"
                      /\ ftd.arguments_[j] = "Msg(" \o ps[j].name \o ")"
                 ELSE IF OwnType(ps[j])
                 THEN /\ ftd.parameters_[j] = Suffix(PlainOf(ps[j]), 4) \o " &"
                      /\ ftd.arguments_[j] = ps[j].name \o "_"
                 ELSE /\ ftd.parameters_[j] = parameter(ps[j])
                      /\ ftd.arguments_[j] = ps[j].name
            /\ ftd.wrapper = [k \in 1..Len(wrapped) |-> RuleOf(ps[wrapped[k]])]

C6_Witness ==
  /\ FtdBuilt
  /\ ftd.has_closure
  /\ ftd.parameters_ = <<"Connection &", "Msg &&">>
  /\ ftd.wrapper = <<"Connection::WithoutDestuction nc_(nc)">>

-----------------------------------------------------------------------------
(* Properties of parse(), checked under Spec.                              *)

\* parse() has returned namespaces
Returned == pc = "done"

IsFunction(d) == d.kind = "FUNCTION_DECL"

\* a typedef with no child or with one type reference as its only child
IsPlainTypedef(d) ==
  /\ d.kind = "TYPEDEF_DECL"
  /\ \/ Len(d.children) = 0
     \/ Len(d.children) = 1 /\ d.children[1].kind = "TYPE_REF"

\* a typedef whose only child is an enum body
IsEnum(d) ==
  /\ d.kind = "TYPEDEF_DECL"
  /\ Len(d.children) = 1 /\ d.children[1].kind = "ENUM_DECL"

IsFunctionTypedef(d) ==
  d.kind = "TYPEDEF_DECL" /\ ~IsPlainTypedef(d) /\ ~IsEnum(d)

\* the name starts with 'nats' or with 'stan'
HasRecognizedPrefix(name) == StartsWith(name, "nats") \/ StartsWith(name, "stan")

\* some input function is named name
FunctionNamed(name) ==
  \E k \in DOMAIN input : IsFunction(input[k]) /\ input[k].spelling = name

\* namespace n holds a class of original type name
ClassIn(n, name) ==
  \E c \in DOMAIN namespaces[n].classes :
    namespaces[n].classes[c].original_type = name

\* the places of the output that hold a function named name:
\* <<n, c, m>> for method m of class c of namespace n, <<n, 0, f>> for free
\* function f of namespace n
PlacesOf(name) ==
  {pl \in (DOMAIN namespaces) \X (0..Len(input)) \X (1..Len(input)) :
     LET n == namespaces[pl[1]] IN
     IF pl[2] = 0
     THEN /\ pl[3] \in DOMAIN n.functions
          /\ n.functions[pl[3]].function.original_function = name
     ELSE /\ pl[2] \in DOMAIN n.classes
          /\ pl[3] \in DOMAIN n.classes[pl[2]].methods
          /\ n.classes[pl[2]].methods[pl[3]].function.original_function = name}

\* declaration d appears in the output
Appears(d) ==
  \/ IsFunction(d) /\ PlacesOf(d.spelling) # {}
  \/ IsPlainTypedef(d) /\ \E n \in DOMAIN namespaces : ClassIn(n, d.spelling)
  \/ /\ IsFunctionTypedef(d)
     /\ \E n \in DOMAIN namespaces :
          \E t \in DOMAIN namespaces[n].function_typedefs :
            namespaces[n].function_typedefs[t].original_name = d.spelling
  \* no list of a Namespace holds an enum

\* C1: a plain typedef T with a recognized prefix is a class of its
\* namespace iff some input function is named T_Destroy; otherwise it is a
\* class of no namespace
C1_ClassIffDestroy ==
  Returned =>
    \A j \in DOMAIN input :
      (IsPlainTypedef(input[j]) /\ HasRecognizedPrefix(input[j].spelling)) =>
        LET T == input[j].spelling IN
        /\ \A n \in DOMAIN namespaces :
             ClassIn(n, T) <=>
               (StartsWith(T, namespaces[n].name) /\ FunctionNamed(T \o "_Destroy"))
        /\ FunctionNamed(T \o "_Destroy") =>
             \E n \in DOMAIN namespaces : ClassIn(n, T)

C1_Witness ==
  /\ Returned
  /\ ClassIn(1, "natsFooBar")
  /\ ~ClassIn(1, "natsFoo")
  /\ \E j \in DOMAIN input : input[j].spelling = "natsFoo"
  /\ FunctionNamed("natsFooBar_Destroy")

\* the four kinds of declaration C3 is about
OfTheFourKinds(d) ==
  IsFunction(d) \/ IsPlainTypedef(d) \/ IsEnum(d) \/ IsFunctionTypedef(d)

\* C3 as stated: a declaration appears in the output iff its name starts
\* with a recognized prefix
C3_AppearsIffPrefix ==
  Returned =>
    \A j \in DOMAIN input :
      OfTheFourKinds(input[j]) =>
        (Appears(input[j]) <=> HasRecognizedPrefix(input[j].spelling))

\* the last parameter of function typedef d is named 'closure'
ClosureConvention(d) ==
  LET ps == SelectSeq(d.children, LAMBDA c : c.kind # "TYPE_REF")
  IN ps # <<>> /\ ps[Len(ps)].spelling = "closure"

\* C3: a declaration appears in the output iff its name starts with a
\* recognized prefix and it is a function, a plain typedef with a function
\* named <name>_Destroy, or a function typedef of the closure convention;
\* enums, the other typedefs and the declarations without a recognized
\* prefix appear nowhere
C3_AppearsIffKept ==
  Returned =>
    \A j \in DOMAIN input :
      OfTheFourKinds(input[j]) =>
        (Appears(input[j]) <=>
           /\ HasRecognizedPrefix(input[j].spelling)
           /\ \/ IsFunction(input[j])
              \/ /\ IsPlainTypedef(input[j])
                 /\ FunctionNamed(input[j].spelling \o "_Destroy")
              \/ IsFunctionTypedef(input[j]) /\ ClosureConvention(input[j]))

C3_Witness ==
  /\ Returned
  /\ \E j \in DOMAIN input :
       IsEnum(input[j]) /\ HasRecognizedPrefix(input[j].spelling)
  /\ \E j \in DOMAIN input :
       IsFunction(input[j]) /\ ~HasRecognizedPrefix(input[j].spelling)
  /\ \E j \in DOMAIN input :
       /\ IsPlainTypedef(input[j]) /\ HasRecognizedPrefix(input[j].spelling)
       /\ ~Appears(input[j])
  /\ \E j \in DOMAIN input : IsFunction(input[j]) /\ Appears(input[j])

\* the classes, in the order of their creation, whose original type name
\* the name starts with
ClaimingClasses(name) ==
  {k \in DOMAIN classes :
     StartsWith(name,
                namespaces[classes[k].ns].classes[classes[k].index].original_type)}

\* C8: a function with a recognized prefix is in exactly one place: a method
\* of the first class, in creation order, whose original type name its name
\* starts with, or, when there is no such class, a free function of the
\* namespace its name starts with
C8_OnePlace ==
  Returned =>
    \A j \in DOMAIN input :
      (IsFunction(input[j]) /\ HasRecognizedPrefix(input[j].spelling)) =>
        LET f == input[j].spelling
            claiming == ClaimingClasses(f)
            places == PlacesOf(f)
        IN /\ Cardinality(places) = 1
           /\ \A pl \in places :
                IF claiming = {}
                THEN pl[2] = 0 /\ StartsWith(f, namespaces[pl[1]].name)
                ELSE LET first == CHOOSE k \in claiming : \A l \in claiming : k <= l
                     IN pl[1] = classes[first].ns /\ pl[2] = classes[first].index

C8_Witness ==
  /\ Returned
  /\ Cardinality(ClaimingClasses("natsFooBar_Destroy")) = 2
  /\ PlacesOf("natsFooBar_Destroy") = {<<1, 1, 2>>}
  /\ namespaces[1].classes[1].original_type = "natsFoo"
  /\ PlacesOf("natsFoo_Destroy") = {<<1, 1, 1>>}

\* C10 as stated: the transformation raises no error
C10_NeverRaises == pc # "raised"

====
